---------------------------- MODULE Spec2Model ----------------------------
(***************************************************************************)
(* kubectl-safe: a wrapper that guards destructive kubectl commands.       *)
(*                                                                         *)
(* The module models pkg/safe (src/pkg/safe/safe.go, lines 1-331) together *)
(* with its binary entry point (src/cmd/kubectl-safe/main.go).  Go strings *)
(* are TLA+ strings, Go slices are sequences, and a Go error is a record   *)
(* (Nil for the nil error).                                                *)
(*                                                                         *)
(* Two specifications are given:                                           *)
(*   Spec    one run of the process: main -> Execute -> ... -> exit        *)
(*   FnSpec  single calls of the package's functions on bounded inputs     *)
(***************************************************************************)
EXTENDS Integers, Sequences, FiniteSets, TLC

VARIABLES
    osArgs,        \* os.Args: program name followed by the argument vector
    args,          \* Execute's local slice args := os.Args[1:]
    pc,            \* position of the (single) thread of control
    err,           \* the error value travelling back to main
    stdout,        \* chunks written to standard output, in order
    stderr,        \* chunks written to standard error, in order
    stdinRead,     \* results of ReadString('\n') on os.Stdin, in order
    kubectlCalls,  \* argument vectors handed to exec.Command("kubectl", ...).Run()
    childStatus,   \* how the kubectl child ended (NoChild while none has ended)
    exitCode,      \* exit status of the kubectl-safe process (Running until exit)
    trace,         \* the steps of Execute taken so far, in order
    call,          \* FnSpec only: the function call made and its result
    lookups,       \* outcomes of "kubectl config get-contexts -o name", in order
    commandList    \* the package variable DangerousCommands of pkg/safe

vars == <<commandList, osArgs, args, pc, err, stdout, stderr, stdinRead, kubectlCalls,
          childStatus, exitCode, trace, call, lookups>>

-----------------------------------------------------------------------------
(* Bounds of the model *)

\* longest argument vector (os.Args[1:]) explored
MaxArgs == 3

\* the tokens argument vectors are built from
ArgPool ==
    { "delete", "taint", "get", "deletes",
      "--context", "-c", "--namespace", "-n",
      "--context=prod", "-c=dev", "--namespace=default", "-n=",
      "prod", "--contexts" }

\* os.Args[1:] for the runs explored
ArgVectors == UNION { [1..n -> ArgPool] : n \in 0..MaxArgs }

\* longest argument vector explored for the termination of a run
MaxLiveArgs == 3

\* the argument vectors explored for the termination of a run: they reach the
\* usage, the pass-through, a failed validation and the confirmation
LiveArgVectors ==
    UNION { [1..n -> {"delete", "get", "--context=prod", "-n"}] : n \in 0..MaxLiveArgs }

\* the tokens argument vectors are built from in the runs of the
\* context-verifying version of the package
V2ArgPool ==
    { "delete", "get",
      "--context", "--context=prod", "--context=", "-c=dev",
      "-n", "--namespace=default",
      "prod", "--context=<not specified>" }

V2ArgVectors == UNION { [1..n -> V2ArgPool] : n \in 0..MaxArgs }

\* what "kubectl config get-contexts --output=name" prints when it succeeds
ListOutputs ==
    { "", "\n", "prod\ndev\n", "dev\n", " prod \n\ndefault\n", "production\n",
      "<not specified>\nprod" }

\* the tokens argument vectors are built from in the runs of the root
\* program (main.go)
RootArgPool ==
    { "delete", "get", "drain",
      "--context=prod", "--context=Prod", "--context=dev", "--context=",
      "--context", "--namespace=default", "-n" }

RootArgVectors == UNION { [1..n -> RootArgPool] : n \in 0..MaxArgs }

\* the tokens argument vectors are built from in the runs of the first
\* version of the root program (main.go lines 1-133)
Root1ArgPool ==
    { "delete", "get",
      "--context=dev", "--context=prod", "-c=dev", "--context", "-c",
      "--namespace=default", "-n=default", "-n" }

Root1ArgVectors == UNION { [1..n -> Root1ArgPool] : n \in 0..MaxArgs }

\* most flag elements after the command in the vectors with several context
\* flags
MaxFlags == 3

\* dangerous commands followed by context flags of different values and a
\* namespace flag
MultiContextVectors ==
    { <<"delete">> \o flags :
        flags \in UNION { [1..n -> { "--context=prod", "--context=dev", "-c=dev",
                                     "--context", "prod",
                                     "--namespace=default" }] : n \in 0..MaxFlags } }

\* most lines in an output of the listing call given to getKubeconfigContexts
MaxLines == 3

\* the lines such an output is made of: raw is the line as printed, name the
\* context name it carries ("" for a blank line)
ListLines ==
    { [raw |-> "", name |-> ""],
      [raw |-> " \t", name |-> ""],
      [raw |-> "prod", name |-> "prod"],
      [raw |-> "  dev ", name |-> "dev"],
      [raw |-> "kind-local\r", name |-> "kind-local"],
      [raw |-> "my ctx", name |-> "my ctx"] }

ListLineVectors == UNION { [1..n -> ListLines] : n \in 0..MaxLines }

\* what "kubectl config get-contexts -o name" prints for the root program
RootListOutputs == { "", "prod\nProd\ndev\n", "dev\n", " prod\nproduction\n" }

\* what standard input holds when the root program reads the confirmation
RootStdinPool ==
    { "prod\n", "Prod\n", "PROD\n", " prod \n", "\tProd\r\n", "dev\n",
      "y\n", "Y\n", " y \n", "yes\n", "n\n", "\n",
      "prod\nprod\n", "dev\ny\n", "", "prod", "Prod", "y" }

\* the argument vectors explored for the version request
VersionArgVectors ==
    UNION { [1..n -> {"--version", "-v", "extra", "delete", "--context=prod", "-n"}] :
                n \in 0..MaxArgs }

\* what standard input holds when the confirmation is read; a content with no
\* "\n" is a stream that ends (is closed) before a full line is available
StdinPool ==
    { "yes\n", "y\n", "YES\n", " y \n", "Yes\n", "\ty\r\n",
      "\n", "n\n", "no\n", "ye\n", "yess\n", "y es\n",
      "yes\nno\n", "no\nyes\n",
      "", "y", "yes" }

\* exit statuses of the kubectl child that are explored
ExitStatuses == {0, 1, 2}

-----------------------------------------------------------------------------
(* Go library functions used by the package, on TLA+ strings *)

\* s[i:i+1]
CharAt(s, i) == SubSeq(s, i, i)

\* strings.HasPrefix
HasPrefix(s, prefix) ==
    Len(s) >= Len(prefix) /\ SubSeq(s, 1, Len(prefix)) = prefix

\* strings.TrimPrefix
TrimPrefix(s, prefix) ==
    IF HasPrefix(s, prefix) THEN SubSeq(s, Len(prefix) + 1, Len(s)) ELSE s

\* strings.Join
RECURSIVE Join(_, _)
Join(elems, sep) ==
    IF Len(elems) = 0 THEN ""
    ELSE IF Len(elems) = 1 THEN elems[1]
    ELSE elems[1] \o sep \o Join(Tail(elems), sep)

\* unicode.IsSpace, on the ASCII range
IsSpace(c) == c \in {" ", "\t", "\n", "\r", "\f"}

\* strings.TrimSpace: leading white space removed, then trailing
RECURSIVE TrimLeftSpace(_)
TrimLeftSpace(s) ==
    IF Len(s) > 0 /\ IsSpace(CharAt(s, 1))
    THEN TrimLeftSpace(SubSeq(s, 2, Len(s)))
    ELSE s

RECURSIVE TrimRightSpace(_)
TrimRightSpace(s) ==
    IF Len(s) > 0 /\ IsSpace(CharAt(s, Len(s)))
    THEN TrimRightSpace(SubSeq(s, 1, Len(s) - 1))
    ELSE s

TrimSpace(s) == TrimRightSpace(TrimLeftSpace(s))

\* unicode.ToLower, on the ASCII range
LowerOf ==
    [A |-> "a", B |-> "b", C |-> "c", D |-> "d", E |-> "e", F |-> "f",
     G |-> "g", H |-> "h", I |-> "i", J |-> "j", K |-> "k", L |-> "l",
     M |-> "m", N |-> "n", O |-> "o", P |-> "p", Q |-> "q", R |-> "r",
     S |-> "s", T |-> "t", U |-> "u", V |-> "v", W |-> "w", X |-> "x",
     Y |-> "y", Z |-> "z"]

\* strings.ToLower
RECURSIVE ToLower(_)
ToLower(s) ==
    IF Len(s) = 0 THEN ""
    ELSE LET c == CharAt(s, 1)
         IN  (IF c \in DOMAIN LowerOf THEN LowerOf[c] ELSE c)
                 \o ToLower(SubSeq(s, 2, Len(s)))

\* strings.IndexByte(s, '\n') counted from 1; 0 when there is none
RECURSIVE IndexNewline(_, _)
IndexNewline(s, i) ==
    IF i > Len(s) THEN 0
    ELSE IF CharAt(s, i) = "\n" THEN i
    ELSE IndexNewline(s, i + 1)

\* strings.Index(s, substr) counted from 1, searching from position i on;
\* 0 when substr does not occur
IndexFrom(s, substr, i) ==
    LET at == { j \in i..(Len(s) - Len(substr) + 1) :
                    SubSeq(s, j, j + Len(substr) - 1) = substr }
    IN  IF at = {} THEN 0
        ELSE CHOOSE j \in at : \A k \in at : j <= k

\* strings.Contains
ContainsStr(s, substr) == IndexFrom(s, substr, 1) # 0

\* strings.Split for a non-empty separator
RECURSIVE Split(_, _)
Split(s, sep) ==
    LET i == IndexFrom(s, sep, 1)
    IN  IF i = 0 THEN <<s>>
        ELSE <<SubSeq(s, 1, i - 1)>> \o Split(SubSeq(s, i + Len(sep), Len(s)), sep)

\* strconv.Itoa for n >= 0 (fmt's %d in "exit status %d")
Digits == <<"0", "1", "2", "3", "4", "5", "6", "7", "8", "9">>

RECURSIVE Itoa(_)
Itoa(n) ==
    IF n < 10 THEN Digits[n + 1]
    ELSE Itoa(n \div 10) \o Digits[(n % 10) + 1]

\* slices.Contains
Contains(list, x) == \E i \in 1..Len(list) : list[i] = x

-----------------------------------------------------------------------------
(* Errors *)

\* the nil error
Nil == [type |-> "nil", msg |-> "", code |-> 0]

\* fmt.Errorf / errors.New
Errorf(msg) == [type |-> "error", msg |-> msg, code |-> 0]

\* bufio.Reader.ReadString('\n') on a stream holding `content`: the text up to
\* and including the first "\n"; at end of stream the text read so far and io.EOF
EOF == [type |-> "error", msg |-> "EOF", code |-> 0]

ReadString(content) ==
    LET i == IndexNewline(content, 1)
    IN  IF i = 0
        THEN [line |-> content, err |-> EOF]
        ELSE [line |-> SubSeq(content, 1, i), err |-> Nil]

-----------------------------------------------------------------------------
(* pkg/safe: data and pure functions *)

\* var DangerousCommands
DangerousCommands ==
    << "delete", "apply", "create", "replace", "patch", "edit",
       "scale", "rollout", "drain", "cordon", "uncordon", "taint" >>

\* isDangerousCommand with a prefix match in place of the exact match
isDangerousCommand_PrefixMatch(a) ==
    Len(a) > 0 /\ \E i \in 1..Len(DangerousCommands) :
                      HasPrefix(a[1], DangerousCommands[i])

\* func isDangerousCommand(args []string) bool
isDangerousCommand(a) ==
    IF Len(a) = 0 THEN FALSE
    ELSE LET command == a[1]
         IN  Contains(DangerousCommands, command)

\* scanRequiredFlags without the "-c=value" and "-n=value" shapes
RECURSIVE scanRequiredFlags_NoShortEquals(_, _, _, _)
scanRequiredFlags_NoShortEquals(a, i, hasContext, hasNamespace) ==
    IF i > Len(a) THEN <<hasContext, hasNamespace>>
    ELSE LET arg == a[i]
             c1 == hasContext \/ arg = "--context" \/ arg = "-c"
             n1 == hasNamespace \/ arg = "--namespace" \/ arg = "-n"
             c2 == c1 \/ HasPrefix(arg, "--context=")
             n2 == n1 \/ HasPrefix(arg, "--namespace=")
         IN  scanRequiredFlags_NoShortEquals(a, i + 1, c2, n2)

\* the for-range loop of validateRequiredFlags: the pair
\* <<hasContext, hasNamespace>> after the elements i.. of a have been scanned
RECURSIVE scanRequiredFlags(_, _, _, _)
scanRequiredFlags(a, i, hasContext, hasNamespace) ==
    IF i > Len(a) THEN <<hasContext, hasNamespace>>
    ELSE LET arg == a[i]
             c1 == hasContext \/ arg = "--context" \/ arg = "-c"
             n1 == hasNamespace \/ arg = "--namespace" \/ arg = "-n"
             c2 == c1 \/ HasPrefix(arg, "--context=") \/ HasPrefix(arg, "-c=")
             n2 == n1 \/ HasPrefix(arg, "--namespace=") \/ HasPrefix(arg, "-n=")
         IN  scanRequiredFlags(a, i + 1, c2, n2)

\* missingFlagsMessage naming both flags whatever is missing
missingFlagsMessage_AlwaysBoth(missing) ==
    "dangerous command requires explicit " \o Join(<<"--context", "--namespace">>, " and ")
        \o " flag(s). This ensures you're targeting the correct cluster and namespace"

\* the text of the missing-flag error for the list `missing`
missingFlagsMessage(missing) ==
    "dangerous command requires explicit " \o Join(missing, " and ")
        \o " flag(s). This ensures you're targeting the correct cluster and namespace"

\* func validateRequiredFlags(args []string) error
validateRequiredFlags(a) ==
    LET has == scanRequiredFlags(a, 1, FALSE, FALSE)
        hasContext == has[1]
        hasNamespace == has[2]
        missing == (IF ~hasContext THEN <<"--context">> ELSE <<>>)
                       \o (IF ~hasNamespace THEN <<"--namespace">> ELSE <<>>)
    IN  IF Len(missing) > 0
        THEN Errorf(missingFlagsMessage(missing))
        ELSE Nil

\* the value extractFlagValue returns when no element matches
NotSpecified == "<not specified>"

\* extractFlagValueFrom trimming the flag name but not the "=" after it
RECURSIVE extractFlagValueFrom_KeepsEquals(_, _, _, _)
extractFlagValueFrom_KeepsEquals(a, i, longFlag, shortFlag) ==
    IF i > Len(a) THEN NotSpecified
    ELSE LET arg == a[i]
         IN  IF HasPrefix(arg, longFlag \o "=")
             THEN TrimPrefix(arg, longFlag)
             ELSE IF HasPrefix(arg, shortFlag \o "=")
             THEN TrimPrefix(arg, shortFlag)
             ELSE IF (arg = longFlag \/ arg = shortFlag) /\ i + 1 <= Len(a)
             THEN a[i + 1]
             ELSE extractFlagValueFrom_KeepsEquals(a, i + 1, longFlag, shortFlag)

\* extractFlagValueFrom letting a later occurrence of the flag replace an
\* earlier one
RECURSIVE extractFlagValueFrom_LastWins(_, _, _, _)
extractFlagValueFrom_LastWins(a, i, longFlag, shortFlag) ==
    IF i > Len(a) THEN NotSpecified
    ELSE LET arg == a[i]
             later == extractFlagValueFrom_LastWins(a, i + 1, longFlag, shortFlag)
         IN  IF later # NotSpecified THEN later
             ELSE IF HasPrefix(arg, longFlag \o "=")
             THEN TrimPrefix(arg, longFlag \o "=")
             ELSE IF HasPrefix(arg, shortFlag \o "=")
             THEN TrimPrefix(arg, shortFlag \o "=")
             ELSE IF (arg = longFlag \/ arg = shortFlag) /\ i + 1 <= Len(a)
             THEN a[i + 1]
             ELSE NotSpecified

\* the for-range loop of extractFlagValue, from index i on
RECURSIVE extractFlagValueFrom(_, _, _, _)
extractFlagValueFrom(a, i, longFlag, shortFlag) ==
    IF i > Len(a) THEN NotSpecified
    ELSE LET arg == a[i]
         IN  IF HasPrefix(arg, longFlag \o "=")
             THEN TrimPrefix(arg, longFlag \o "=")
             ELSE IF HasPrefix(arg, shortFlag \o "=")
             THEN TrimPrefix(arg, shortFlag \o "=")
             ELSE IF (arg = longFlag \/ arg = shortFlag) /\ i + 1 <= Len(a)
             THEN a[i + 1]
             ELSE extractFlagValueFrom(a, i + 1, longFlag, shortFlag)

\* func extractFlagValue(args []string, longFlag, shortFlag string) string
extractFlagValue(a, longFlag, shortFlag) ==
    extractFlagValueFrom(a, 1, longFlag, shortFlag)

\* showConfirmation, up to the read: what is printed before stdin is read
PromptText == "Are you sure you want to continue? (yes/no): "

showConfirmationBanner(a) ==
    LET context == extractFlagValue(a, "--context", "-c")
        namespace == extractFlagValue(a, "--namespace", "-n")
    IN  << "DANGEROUS COMMAND DETECTED\n\n",
           "You are about to execute: kubectl " \o Join(a, " ") \o "\n\n",
           "Target Details:\n",
           "  Context:   " \o context \o "\n",
           "  Namespace: " \o namespace \o "\n\n",
           "This operation may cause data loss or service disruption.\n",
           PromptText >>

CancelledText == "Operation cancelled.\n"
ProceedingText == "Proceeding with operation...\n"

\* showConfirmationAnswer accepting every answer that begins with "y"
showConfirmationAnswer_AnyY(rd) ==
    IF rd.err # Nil
    THEN [err |-> Errorf("failed to read user input: " \o rd.err.msg), out |-> <<>>]
    ELSE LET response == TrimSpace(ToLower(rd.line))
         IN  IF ~HasPrefix(response, "y")
             THEN [err |-> Errorf("operation cancelled by user"),
                   out |-> <<CancelledText>>]
             ELSE [err |-> Nil, out |-> <<ProceedingText>>]

\* showConfirmationAnswer with the error of ReadString discarded
showConfirmationAnswer_ReadErrorIgnored(rd) ==
    LET response == TrimSpace(ToLower(rd.line))
    IN  IF response # "yes" /\ response # "y"
        THEN [err |-> Errorf("operation cancelled by user"),
              out |-> <<CancelledText>>]
        ELSE [err |-> Nil, out |-> <<ProceedingText>>]

\* showConfirmation, from the read on: the error returned and what is printed,
\* given the result rd of reader.ReadString('\n')
showConfirmationAnswer(rd) ==
    IF rd.err # Nil
    THEN [err |-> Errorf("failed to read user input: " \o rd.err.msg), out |-> <<>>]
    ELSE LET response == TrimSpace(ToLower(rd.line))
         IN  IF response # "yes" /\ response # "y"
             THEN [err |-> Errorf("operation cancelled by user"),
                   out |-> <<CancelledText>>]
             ELSE [err |-> Nil, out |-> <<ProceedingText>>]

\* func showConfirmation(args []string) error, with standard input holding
\* `content`: the error returned, everything printed, and the read made
showConfirmation(a, content) ==
    LET rd == ReadString(content)
        ans == showConfirmationAnswer(rd)
    IN  [err |-> ans.err, out |-> showConfirmationBanner(a) \o ans.out, read |-> rd]

\* func showUsage() error: the text printed (it always returns nil)
showUsageText ==
    "kubectl-safe: Interactive safety net for dangerous kubectl commands\n\n"
        \o "Usage:\n  kubectl safe <kubectl-command> [flags]\n\n"
        \o "This plugin acts as a safety wrapper around kubectl commands. For dangerous operations,\n"
        \o "it will:\n"
        \o "  - Require explicit --context and --namespace flags\n"
        \o "  - Show an interactive confirmation prompt\n"
        \o "  - Display target cluster and namespace information\n\n"
        \o "Examples:\n"
        \o "  kubectl safe delete pod mypod --context=prod --namespace=default\n"
        \o "  kubectl safe apply -f deployment.yaml --context=staging --namespace=myapp\n\n"
        \o "Dangerous commands that trigger safety checks:\n  "
        \o Join(DangerousCommands, ", ") \o "\n\n"
        \o "For safe commands, this plugin acts as a transparent pass-through to kubectl.\n\n"

\* cmd.Output() of "kubectl config get-contexts --output=name": the child
\* prints out and exits 0, or it exits with another status, or it cannot be
\* started
ListOutcomes ==
    { [ok |-> TRUE, out |-> o, err |-> Nil] : o \in ListOutputs }
      \cup { [ok |-> FALSE, out |-> "",
              err |-> [type |-> "exec.ExitError", msg |-> "exit status 1", code |-> 1]],
             [ok |-> FALSE, out |-> "",
              err |-> [type |-> "exec.Error",
                       msg |-> "exec: \"kubectl\": executable file not found in $PATH",
                       code |-> 0]] }

\* the record kept of one listing call: its outcome and the context value
\* that was looked for in it
LookupOf(outcome, context) ==
    [ok |-> outcome.ok, out |-> outcome.out, err |-> outcome.err,
     checked |-> context]

\* validContextsOf appending the elements as they are
RECURSIVE validContextsOf_NotTrimmed(_)
validContextsOf_NotTrimmed(contexts) ==
    IF contexts = <<>> THEN <<>>
    ELSE LET context == Head(contexts)
         IN  (IF TrimSpace(context) # "" THEN <<context>> ELSE <<>>)
                 \o validContextsOf_NotTrimmed(Tail(contexts))

\* getKubeconfigContexts, lines 529-535: the non-blank elements, trimmed
RECURSIVE validContextsOf(_)
validContextsOf(contexts) ==
    IF contexts = <<>> THEN <<>>
    ELSE LET context == Head(contexts)
         IN  (IF TrimSpace(context) # "" THEN <<TrimSpace(context)>> ELSE <<>>)
                 \o validContextsOf(Tail(contexts))

\* getKubeconfigContexts reporting a failed listing as an empty list
getKubeconfigContexts_FailureIsEmptyList(outcome) ==
    IF TrimSpace(outcome.out) = ""
    THEN [contexts |-> <<>>, isNil |-> FALSE, err |-> Nil]
    ELSE LET validContexts == validContextsOf(Split(TrimSpace(outcome.out), "\n"))
         IN  [contexts |-> validContexts, isNil |-> validContexts = <<>>,
              err |-> Nil]

\* func getKubeconfigContexts() ([]string, error), given the outcome of
\* cmd.Output().  isNil tells a nil slice from an empty one: the error return
\* gives nil, the blank output []string{}, and validContexts (declared with
\* var, so nil) stays nil until something is appended
getKubeconfigContexts(outcome) ==
    IF outcome.err # Nil
    THEN [contexts |-> <<>>, isNil |-> TRUE,
          err |-> Errorf("failed to execute kubectl config get-contexts: "
                             \o outcome.err.msg)]
    ELSE LET outputStr == TrimSpace(outcome.out)
         IN  IF outputStr = ""
             THEN [contexts |-> <<>>, isNil |-> FALSE, err |-> Nil]
             ELSE LET validContexts == validContextsOf(Split(outputStr, "\n"))
                  IN  [contexts |-> validContexts,
                       isNil |-> validContexts = <<>>, err |-> Nil]

\* scanRequiredFlagsV2 taking the value from the element at hand, so that
\* the last "flag=value" element gives the value
RECURSIVE scanRequiredFlagsV2_ValueOfCurrentElement(_, _, _, _, _, _)
scanRequiredFlagsV2_ValueOfCurrentElement(all, a, i, hasContext, hasNamespace, contextValue) ==
    IF i > Len(a) THEN <<hasContext, hasNamespace, contextValue>>
    ELSE LET arg == a[i]
             c1 == hasContext \/ arg = "--context" \/ arg = "-c"
             n1 == hasNamespace \/ arg = "--namespace" \/ arg = "-n"
             eqc == HasPrefix(arg, "--context=") \/ HasPrefix(arg, "-c=")
             c2 == c1 \/ eqc
             v2 == IF HasPrefix(arg, "--context=") THEN TrimPrefix(arg, "--context=")
                   ELSE IF HasPrefix(arg, "-c=") THEN TrimPrefix(arg, "-c=")
                   ELSE contextValue
             n2 == n1 \/ HasPrefix(arg, "--namespace=") \/ HasPrefix(arg, "-n=")
         IN  scanRequiredFlagsV2_ValueOfCurrentElement(all, a, i + 1, c2, n2, v2)

\* the for-range loop of the context-verifying validateRequiredFlags (lines
\* 403-417): <<hasContext, hasNamespace, contextValue>> after the elements
\* i.. of a have been scanned; all is the whole of args
RECURSIVE scanRequiredFlagsV2(_, _, _, _, _, _)
scanRequiredFlagsV2(all, a, i, hasContext, hasNamespace, contextValue) ==
    IF i > Len(a) THEN <<hasContext, hasNamespace, contextValue>>
    ELSE LET arg == a[i]
             c1 == hasContext \/ arg = "--context" \/ arg = "-c"
             n1 == hasNamespace \/ arg = "--namespace" \/ arg = "-n"
             eqc == HasPrefix(arg, "--context=") \/ HasPrefix(arg, "-c=")
             c2 == c1 \/ eqc
             v2 == IF eqc THEN extractFlagValue(all, "--context", "-c")
                   ELSE contextValue
             n2 == n1 \/ HasPrefix(arg, "--namespace=") \/ HasPrefix(arg, "-n=")
         IN  scanRequiredFlagsV2(all, a, i + 1, c2, n2, v2)

\* validateRequiredFlags of the context-verifying version, lines 398-438, up
\* to the call of getKubeconfigContexts: the error returned without a lookup
\* (err), or that the lookup is needed (lookup) and for which value
validateRequiredFlagsV2_Scan(a) ==
    LET has == scanRequiredFlagsV2(a, a, 1, FALSE, FALSE, "")
        hasContext == has[1]
        hasNamespace == has[2]
        contextValue == IF hasContext /\ has[3] = ""
                        THEN extractFlagValue(a, "--context", "-c")
                        ELSE has[3]
        missing == (IF ~hasContext THEN <<"--context">> ELSE <<>>)
                       \o (IF ~hasNamespace THEN <<"--namespace">> ELSE <<>>)
    IN  IF Len(missing) > 0
        THEN [err |-> Errorf(missingFlagsMessage(missing)), lookup |-> FALSE,
              contextValue |-> contextValue]
        ELSE [err |-> Nil,
              lookup |-> hasContext /\ contextValue # "" /\ contextValue # NotSpecified,
              contextValue |-> contextValue]

\* validateRequiredFlags of the context-verifying version, lines 439-450: the
\* error returned once getKubeconfigContexts has returned listing
validateRequiredFlagsV2_Verify(contextValue, listing) ==
    IF listing.err # Nil
    THEN Errorf("failed to get available contexts from kubeconfig: "
                    \o listing.err.msg)
    ELSE IF ~Contains(listing.contexts, contextValue)
    THEN Errorf("context '" \o contextValue
                    \o "' not found in kubeconfig. Available contexts: "
                    \o Join(listing.contexts, ", "))
    ELSE Nil

\* cmd.Run(): the error for an outcome of the child.  An outcome is "exited"
\* with an exit status, or "spawn failed" when kubectl could not be started
ChildExited(k) == [state |-> "exited", status |-> k]
SpawnFailed == [state |-> "spawn failed", status |-> 0]
RunOutcomes == { ChildExited(k) : k \in ExitStatuses } \cup {SpawnFailed}

runError(outcome) ==
    IF outcome.state = "spawn failed"
    THEN [type |-> "exec.Error",
          msg |-> "exec: \"kubectl\": executable file not found in $PATH",
          code |-> 0]
    ELSE IF outcome.status = 0 THEN Nil
    ELSE [type |-> "exec.ExitError",
          msg |-> "exit status " \o Itoa(outcome.status),
          code |-> outcome.status]

-----------------------------------------------------------------------------
(* One run of the process: cmd/kubectl-safe main calling safe.Execute *)

ProgramName == "kubectl-safe"
NoChild == [state |-> "none", status |-> 0]
Running == -1

\* the call record while no function has been called (all of Spec)
NoCall ==
    [fn |-> "", long |-> "", short |-> "", content |-> "",
     bool |-> FALSE, str |-> "", err |-> Nil,
     lines |-> <<>>, list |-> <<>>, isNil |-> FALSE]

\* the state at process start: entry is where control starts, vectors the
\* argument vectors the run may be given
InitWith(vectors, entry) ==
    /\ osArgs \in { <<ProgramName>> \o v : v \in vectors }
    /\ args = <<>>
    /\ pc = entry
    /\ err = Nil
    /\ stdout = <<>>
    /\ stderr = <<>>
    /\ stdinRead = <<>>
    /\ kubectlCalls = <<>>
    /\ childStatus = NoChild
    /\ exitCode = Running
    /\ trace = <<>>
    /\ call = NoCall
    /\ lookups = <<>>
    /\ commandList = DangerousCommands

Init == InitWith(ArgVectors, "Execute")

\* Execute_Start handing an empty argument vector to kubectl instead of
\* printing the usage
Execute_Start_NoArgsRunsKubectl ==
    /\ pc = "Execute"
    /\ args' = Tail(osArgs)
    /\ pc' = IF Len(args') = 0 THEN "executeKubectl" ELSE "classify"
    /\ UNCHANGED <<commandList, osArgs, stdout, err, trace, stderr, stdinRead, kubectlCalls,
                   childStatus, exitCode, call, lookups>>

\* Execute_Start with a showUsage that cuts the package's list down to its
\* first eight commands
Execute_Start_UsageEditsList ==
    /\ pc = "Execute"
    /\ args' = Tail(osArgs)
    /\ IF Len(args') = 0
       THEN /\ commandList' = SubSeq(commandList, 1, 8)
            /\ stdout' = Append(stdout, showUsageText)
            /\ err' = Nil
            /\ trace' = Append(trace, "usage")
            /\ pc' = "return"
       ELSE /\ pc' = "classify"
            /\ UNCHANGED <<commandList, stdout, err, trace>>
    /\ UNCHANGED <<osArgs, stderr, stdinRead, kubectlCalls, childStatus,
                   exitCode, call, lookups>>

\* Execute, lines 60-65: args := os.Args[1:]; with no argument, showUsage
Execute_Start ==
    /\ pc = "Execute"
    /\ args' = Tail(osArgs)
    /\ IF Len(args') = 0
       THEN /\ stdout' = Append(stdout, showUsageText)
            /\ err' = Nil
            /\ trace' = Append(trace, "usage")
            /\ pc' = "return"
       ELSE /\ pc' = "classify"
            /\ UNCHANGED <<stdout, err, trace>>
    /\ UNCHANGED <<commandList, osArgs, stderr, stdinRead, kubectlCalls, childStatus,
                   exitCode, call, lookups>>

\* Execute_Classify with the pass-through left out: every command is validated
Execute_Classify_NoPassThrough ==
    /\ pc = "classify"
    /\ trace' = Append(trace, "classify")
    /\ pc' = "validate"
    /\ UNCHANGED <<commandList, osArgs, args, err, stdout, stderr, stdinRead, kubectlCalls,
                   childStatus, exitCode, call, lookups>>

\* Execute, lines 68-71: a command that is not dangerous goes to kubectl
Execute_Classify ==
    /\ pc = "classify"
    /\ trace' = Append(trace, "classify")
    /\ pc' = IF ~isDangerousCommand(args) THEN "executeKubectl" ELSE "validate"
    /\ UNCHANGED <<commandList, osArgs, args, err, stdout, stderr, stdinRead, kubectlCalls,
                   childStatus, exitCode, call, lookups>>

\* Execute_Validate with the validation error dropped
Execute_Validate_ErrorDropped ==
    /\ pc = "validate"
    /\ trace' = Append(trace, "validate")
    /\ err' = Nil
    /\ pc' = "showConfirmation"
    /\ UNCHANGED <<commandList, osArgs, args, stdout, stderr, stdinRead, kubectlCalls,
                   childStatus, exitCode, call, lookups>>

\* Execute, lines 74-76: a validation error is returned to main
Execute_Validate ==
    /\ pc = "validate"
    /\ trace' = Append(trace, "validate")
    /\ err' = validateRequiredFlags(args)
    /\ pc' = IF err' # Nil THEN "return" ELSE "showConfirmation"
    /\ UNCHANGED <<commandList, osArgs, args, stdout, stderr, stdinRead, kubectlCalls,
                   childStatus, exitCode, call, lookups>>

\* showConfirmation, lines 200-212: the banner and the prompt are printed
ShowConfirmation_Print ==
    /\ pc = "showConfirmation"
    /\ trace' = Append(trace, "confirm")
    /\ stdout' = stdout \o showConfirmationBanner(args)
    /\ pc' = "ReadString"
    /\ UNCHANGED <<commandList, osArgs, args, err, stderr, stdinRead, kubectlCalls,
                   childStatus, exitCode, call, lookups>>

\* ShowConfirmation_Read asking again after an answer that is not a
\* confirmation
ShowConfirmation_Read_AsksAgain ==
    /\ pc = "ReadString"
    /\ \E content \in StdinPool :
         LET rd == ReadString(content)
             ans == showConfirmationAnswer(rd)
         IN  /\ stdinRead' = Append(stdinRead, rd)
             /\ stdout' = stdout \o ans.out
             /\ err' = ans.err
             /\ pc' = IF ans.err # Nil THEN "showConfirmation" ELSE "executeKubectl"
    /\ trace' = Append(trace, "read")
    /\ UNCHANGED <<commandList, osArgs, args, stderr, kubectlCalls, childStatus, exitCode,
                   call, lookups>>

\* ShowConfirmation_Read waiting for another line after an answer that is not
\* a confirmation
ShowConfirmation_Read_WaitsForYes ==
    /\ pc = "ReadString"
    /\ \E content \in StdinPool :
         LET rd == ReadString(content)
             ans == showConfirmationAnswer(rd)
         IN  /\ stdinRead' = <<rd>>
             /\ err' = ans.err
             /\ IF ans.err # Nil
                THEN /\ pc' = "ReadString"
                     /\ UNCHANGED <<stdout, trace>>
                ELSE /\ pc' = "executeKubectl"
                     /\ stdout' = stdout \o ans.out
                     /\ trace' = Append(trace, "read")
    /\ UNCHANGED <<commandList, osArgs, args, stderr, kubectlCalls, childStatus, exitCode,
                   call, lookups>>

\* ShowConfirmation_Read with the error of showConfirmation not checked
ShowConfirmation_Read_ErrorDropped ==
    /\ pc = "ReadString"
    /\ \E content \in StdinPool :
         LET rd == ReadString(content)
             ans == showConfirmationAnswer(rd)
         IN  /\ stdinRead' = Append(stdinRead, rd)
             /\ stdout' = stdout \o ans.out
             /\ err' = ans.err
             /\ pc' = "executeKubectl"
    /\ trace' = Append(trace, "read")
    /\ UNCHANGED <<commandList, osArgs, args, stderr, kubectlCalls, childStatus, exitCode,
                   call, lookups>>

\* showConfirmation, lines 215-229, and Execute, lines 79-81: one line is read
\* from standard input; anything but a confirmation is returned as an error
ShowConfirmation_Read ==
    /\ pc = "ReadString"
    /\ \E content \in StdinPool :
         LET rd == ReadString(content)
             ans == showConfirmationAnswer(rd)
         IN  /\ stdinRead' = Append(stdinRead, rd)
             /\ stdout' = stdout \o ans.out
             /\ err' = ans.err
             /\ pc' = IF ans.err # Nil THEN "return" ELSE "executeKubectl"
    /\ trace' = Append(trace, "read")
    /\ UNCHANGED <<commandList, osArgs, args, stderr, kubectlCalls, childStatus, exitCode,
                   call, lookups>>

\* ExecuteKubectl_Start handing over the arguments after the command only
ExecuteKubectl_Start_DropsCommand ==
    /\ pc = "executeKubectl"
    /\ trace' = Append(trace, "execute")
    /\ kubectlCalls' = Append(kubectlCalls, Tail(args))
    /\ pc' = "cmd.Run"
    /\ UNCHANGED <<commandList, osArgs, args, err, stdout, stderr, stdinRead, childStatus,
                   exitCode, call, lookups>>

\* executeKubectl, lines 287-292: kubectl is started with args
ExecuteKubectl_Start ==
    /\ pc = "executeKubectl"
    /\ trace' = Append(trace, "execute")
    /\ kubectlCalls' = Append(kubectlCalls, args)
    /\ pc' = "cmd.Run"
    /\ UNCHANGED <<commandList, osArgs, args, err, stdout, stderr, stdinRead, childStatus,
                   exitCode, call, lookups>>

\* executeKubectl, line 292: cmd.Run() returns when the child has ended (or
\* could not be started); its error is what Execute returns
ExecuteKubectl_Wait ==
    /\ pc = "cmd.Run"
    /\ \E outcome \in RunOutcomes :
         /\ childStatus' = outcome
         /\ err' = runError(outcome)
    /\ pc' = "return"
    /\ UNCHANGED <<commandList, osArgs, args, stdout, stderr, stdinRead, kubectlCalls,
                   exitCode, trace, call, lookups>>

\* Main_Exit printing the error but returning from main, with status 0
Main_Exit_StatusDropped ==
    /\ pc = "return"
    /\ IF err # Nil
       THEN stderr' = Append(stderr, "Error: " \o err.msg \o "\n")
       ELSE UNCHANGED stderr
    /\ exitCode' = 0
    /\ pc' = "exited"
    /\ UNCHANGED <<commandList, osArgs, args, err, stdout, stdinRead, kubectlCalls,
                   childStatus, trace, call, lookups>>

\* cmd/kubectl-safe main, lines 32-35: an error is printed and the exit
\* status is 1; otherwise main returns and the status is 0
Main_Exit ==
    /\ pc = "return"
    /\ IF err # Nil
       THEN /\ stderr' = Append(stderr, "Error: " \o err.msg \o "\n")
            /\ exitCode' = 1
       ELSE /\ exitCode' = 0
            /\ UNCHANGED stderr
    /\ pc' = "exited"
    /\ UNCHANGED <<commandList, osArgs, args, err, stdout, stdinRead, kubectlCalls,
                   childStatus, trace, call, lookups>>

-----------------------------------------------------------------------------
(* One run of the root program: main.go, the version that checks the context
   against the kubeconfig.  Everything it prints goes to standard output
   (fmt and color both write there); colours are left out. *)

\* var dangerousCommands map[string]bool: the keys set to true
dangerousCommands ==
    { "delete", "apply", "edit", "patch", "rollout", "scale", "create", "replace" }

\* strings.SplitN(arg, "=", 2)[1] for an arg that holds "="
AfterFirstEquals(arg) ==
    SubSeq(arg, IndexFrom(arg, "=", 1) + 1, Len(arg))

\* the loop of parseContextAndNamespace from index i on; r holds the four
\* results so far
RECURSIVE parseContextAndNamespaceFrom(_, _, _)
parseContextAndNamespaceFrom(a, i, r) ==
    IF i > Len(a) THEN r
    ELSE LET arg == a[i]
             r1 == IF HasPrefix(arg, "--context=")
                   THEN [r EXCEPT !.contextIsSet = TRUE,
                                  !.context = AfterFirstEquals(arg)]
                   ELSE IF HasPrefix(arg, "--namespace=")
                   THEN [r EXCEPT !.namespaceIsSet = TRUE,
                                  !.namespace = AfterFirstEquals(arg)]
                   ELSE IF arg = "--context" \/ arg = "-n" \/ arg = "--namespace"
                   THEN IF i + 1 <= Len(a)
                        THEN IF arg = "--context"
                             THEN [r EXCEPT !.contextIsSet = TRUE,
                                            !.context = a[i + 1]]
                             ELSE [r EXCEPT !.namespaceIsSet = TRUE,
                                            !.namespace = a[i + 1]]
                        ELSE r
                   ELSE r
         IN  parseContextAndNamespaceFrom(a, i + 1, r1)

\* func parseContextAndNamespace(args []string)
\*     (context, namespace string, contextIsSet, namespaceIsSet bool)
parseContextAndNamespace(a) ==
    parseContextAndNamespaceFrom(a, 1,
        [context |-> "", namespace |-> "",
         contextIsSet |-> FALSE, namespaceIsSet |-> FALSE])

\* contextExists, lines 185-197, given the outcome of cmd.Output(): an exact
\* comparison with each line of the output
contextExistsIn(context, outcome) ==
    IF outcome.err # Nil THEN FALSE
    ELSE LET contexts == Split(outcome.out, "\n")
         IN  \E k \in 1..Len(contexts) : contexts[k] = context

\* printCommandSummary: what it prints
printCommandSummary(allArgs, context, namespace) ==
    << "You are about to run the following command:\n",
       "  kubectl " \o Join(allArgs, " ") \o "\n",
       "on context ", context, " in namespace ", namespace \o "\n" >>

\* confirmProductionContext, lines 240-242 and 253-255: whether the context
\* counts as production, and what is printed before standard input is read
isProductionContext(context) == ContainsStr(ToLower(context), "prod")

YesNoPrompt == "Do you want to continue? (y/n): "

TypeNamePrompt(context) ==
    "To proceed, please type the context name ('" \o context
        \o "') and press Enter: "

confirmProductionContextPrompt(context) ==
    IF isProductionContext(context)
    THEN << "WARNING: You are about to run a command on a PRODUCTION context!\n",
            TypeNamePrompt(context) >>
    ELSE << YesNoPrompt >>

\* confirmProductionContextAnswer comparing the typed name without regard to
\* case
confirmProductionContextAnswer_IgnoresCase(context, rd) ==
    IF rd.err # Nil
    THEN [ok |-> FALSE,
          out |-> << "ERROR: Failed to read user input: " \o rd.err.msg \o "\n" >>]
    ELSE IF isProductionContext(context)
    THEN IF ToLower(TrimSpace(rd.line)) # ToLower(context)
         THEN [ok |-> FALSE,
               out |-> << "Aborted: Context name did not match. Command will not be executed.\n" >>]
         ELSE [ok |-> TRUE, out |-> <<>>]
    ELSE [ok |-> ToLower(TrimSpace(rd.line)) = "y", out |-> <<>>]

\* confirmProductionContext (lines 243-252) and askForConfirmation (lines
\* 171-178) from the read on: the result and what is printed, given the
\* result rd of reader.ReadString('\n')
confirmProductionContextAnswer(context, rd) ==
    IF rd.err # Nil
    THEN [ok |-> FALSE,
          out |-> << "ERROR: Failed to read user input: " \o rd.err.msg \o "\n" >>]
    ELSE IF isProductionContext(context)
    THEN IF TrimSpace(rd.line) # context
         THEN [ok |-> FALSE,
               out |-> << "Aborted: Context name did not match. Command will not be executed.\n" >>]
         ELSE [ok |-> TRUE, out |-> <<>>]
    ELSE [ok |-> ToLower(TrimSpace(rd.line)) = "y", out |-> <<>>]

\* main, lines 262-301: with no argument kubectl is run as it is; a command
\* that is not dangerous is passed to kubectl; for a dangerous one the flags
\* are parsed, a missing flag ends the run with status 1, and so does an
\* empty context (contextExists returns false without a call); otherwise
\* contextExists starts the listing child
Root_Main ==
    /\ pc = "root:main"
    /\ args' = Tail(osArgs)
    /\ IF Len(osArgs) < 2
       THEN /\ pc' = "root:executeKubectl"
            /\ UNCHANGED <<stdout, exitCode, trace>>
       ELSE LET command == osArgs[2]
                kubectlArgs == SubSeq(osArgs, 3, Len(osArgs))
                p == parseContextAndNamespace(kubectlArgs)
            IN  IF command \notin dangerousCommands
                THEN /\ stdout' = Append(stdout,
                            "--> Safe command detected. Passing directly to kubectl...\n")
                     /\ trace' = Append(trace, "classify")
                     /\ pc' = "root:executeKubectl"
                     /\ UNCHANGED exitCode
                ELSE IF ~p.contextIsSet \/ ~p.namespaceIsSet
                THEN /\ stdout' = stdout
                            \o (IF ~p.contextIsSet
                                THEN << "ERROR: The --context flag is mandatory for the dangerous command '"
                                            \o command \o "'.\n" >>
                                ELSE <<>>)
                            \o (IF ~p.namespaceIsSet
                                THEN << "WARNING: The --namespace (-n) flag is mandatory for the dangerous command '"
                                            \o command \o "'.\n" >>
                                ELSE <<>>)
                            \o << "\nPlease specify the cluster and namespace and try again.\n" >>
                     /\ trace' = trace \o <<"classify", "validate">>
                     /\ exitCode' = 1
                     /\ pc' = "root:exited"
                ELSE IF p.context = ""
                THEN /\ stdout' = stdout
                            \o << "ERROR: The specified context '" \o p.context
                                      \o "' does not exist in your kubeconfig.\n",
                                  "Please check your --context value and try again.\n" >>
                     /\ trace' = trace \o <<"classify", "validate">>
                     /\ exitCode' = 1
                     /\ pc' = "root:exited"
                ELSE /\ trace' = trace \o <<"classify", "validate">>
                     /\ pc' = "root:contextExists"
                     /\ UNCHANGED <<stdout, exitCode>>
    /\ UNCHANGED <<commandList, osArgs, err, stderr, stdinRead, kubectlCalls, childStatus,
                   call, lookups>>

\* main, lines 298-305, with contextExists (lines 185-197) once the listing
\* child has ended: an unknown context ends the run with status 1;
\* otherwise the summary and the prompt of confirmProductionContext are
\* printed
Root_ContextExists ==
    /\ pc = "root:contextExists"
    /\ \E outcome \in { [ok |-> TRUE, out |-> o, err |-> Nil] : o \in RootListOutputs }
                          \cup { l \in ListOutcomes : ~l.ok } :
         LET p == parseContextAndNamespace(Tail(args))
         IN  /\ lookups' = Append(lookups, LookupOf(outcome, p.context))
             /\ IF ~contextExistsIn(p.context, outcome)
                THEN /\ stdout' = stdout
                            \o << "ERROR: The specified context '" \o p.context
                                      \o "' does not exist in your kubeconfig.\n",
                                  "Please check your --context value and try again.\n" >>
                     /\ exitCode' = 1
                     /\ pc' = "root:exited"
                     /\ UNCHANGED trace
                ELSE /\ stdout' = stdout
                            \o printCommandSummary(args, p.context, p.namespace)
                            \o confirmProductionContextPrompt(p.context)
                     /\ trace' = Append(trace, "confirm")
                     /\ pc' = "root:ReadString"
                     /\ UNCHANGED exitCode
    /\ UNCHANGED <<commandList, osArgs, args, err, stderr, stdinRead, kubectlCalls,
                   childStatus, call>>

\* confirmProductionContext from the read on, and main lines 305-311: a
\* refusal ends the run with status 1; otherwise the command is executed
Root_Confirm ==
    /\ pc = "root:ReadString"
    /\ \E content \in RootStdinPool :
         LET rd == ReadString(content)
             p == parseContextAndNamespace(Tail(args))
             ans == confirmProductionContextAnswer(p.context, rd)
         IN  /\ stdinRead' = Append(stdinRead, rd)
             /\ IF ~ans.ok
                THEN /\ stdout' = stdout \o ans.out
                     /\ exitCode' = 1
                     /\ pc' = "root:exited"
                ELSE /\ stdout' = stdout \o ans.out
                            \o << "--- All checks passed. Executing command. ---\n" >>
                     /\ pc' = "root:executeKubectl"
                     /\ UNCHANGED exitCode
    /\ trace' = Append(trace, "read")
    /\ UNCHANGED <<commandList, osArgs, args, err, stderr, kubectlCalls, childStatus, call,
                   lookups>>

\* executeKubectl, lines 159-164: kubectl is started with the arguments
Root_ExecuteKubectl_Start ==
    /\ pc = "root:executeKubectl"
    /\ kubectlCalls' = Append(kubectlCalls, args)
    /\ trace' = Append(trace, "execute")
    /\ pc' = "root:cmd.Run"
    /\ UNCHANGED <<commandList, osArgs, args, err, stdout, stderr, stdinRead, childStatus,
                   exitCode, call, lookups>>

\* executeKubectl, lines 164-166: cmd.Run() returns; any error is exit
\* status 1, otherwise main returns
Root_ExecuteKubectl_Wait ==
    /\ pc = "root:cmd.Run"
    /\ \E outcome \in RunOutcomes :
         /\ childStatus' = outcome
         /\ exitCode' = IF runError(outcome) # Nil THEN 1 ELSE 0
    /\ pc' = "root:exited"
    /\ UNCHANGED <<commandList, osArgs, args, err, stdout, stderr, stdinRead, kubectlCalls,
                   trace, call, lookups>>

\* askForConfirmation of the first version of the root program (lines
\* 127-132): the error of ReadString is discarded and what was read is
\* compared
askForConfirmationV1(rd) == ToLower(TrimSpace(rd.line)) = "y"

\* main of the first version of the root program, lines 37-108: as Root_Main
\* (the flag loop of lines 63-82 is the code of parseContextAndNamespace),
\* but with no check of the context; the summary and the yes/no prompt are
\* printed
Root1_Main ==
    /\ pc = "root1:main"
    /\ args' = Tail(osArgs)
    /\ IF Len(osArgs) < 2
       THEN /\ pc' = "root:executeKubectl"
            /\ UNCHANGED <<stdout, exitCode, trace>>
       ELSE LET command == osArgs[2]
                kubectlArgs == SubSeq(osArgs, 3, Len(osArgs))
                p == parseContextAndNamespace(kubectlArgs)
            IN  IF command \notin dangerousCommands
                THEN /\ stdout' = Append(stdout,
                            "--> Safe command detected. Passing directly to kubectl...\n")
                     /\ trace' = Append(trace, "classify")
                     /\ pc' = "root:executeKubectl"
                     /\ UNCHANGED exitCode
                ELSE IF ~p.contextIsSet \/ ~p.namespaceIsSet
                THEN /\ stdout' = stdout
                            \o (IF ~p.contextIsSet
                                THEN << "ERROR: The --context flag is mandatory for the dangerous command '"
                                            \o command \o "'.\n" >>
                                ELSE <<>>)
                            \o (IF ~p.namespaceIsSet
                                THEN << "WARNING: The --namespace (-n) flag is mandatory for the dangerous command '"
                                            \o command \o "'.\n" >>
                                ELSE <<>>)
                            \o << "\nPlease specify the cluster and namespace and try again.\n" >>
                     /\ trace' = trace \o <<"classify", "validate">>
                     /\ exitCode' = 1
                     /\ pc' = "root:exited"
                ELSE /\ stdout' = stdout
                            \o printCommandSummary(Tail(osArgs), p.context, p.namespace)
                            \o << YesNoPrompt >>
                     /\ trace' = trace \o <<"classify", "validate", "confirm">>
                     /\ pc' = "root1:ReadString"
                     /\ UNCHANGED exitCode
    /\ UNCHANGED <<commandList, osArgs, err, stderr, stdinRead, kubectlCalls,
                   childStatus, call, lookups>>

\* main of the first version, lines 110-124, with askForConfirmation: a
\* refusal ends the run with status 1; otherwise the command is executed
Root1_Confirm ==
    /\ pc = "root1:ReadString"
    /\ \E content \in RootStdinPool :
         LET rd == ReadString(content)
         IN  /\ stdinRead' = Append(stdinRead, rd)
             /\ IF ~askForConfirmationV1(rd)
                THEN /\ stdout' = Append(stdout, "Aborted by user.\n")
                     /\ exitCode' = 1
                     /\ pc' = "root:exited"
                ELSE /\ stdout' = Append(stdout,
                            "--- All checks passed. Executing command. ---\n")
                     /\ pc' = "root:executeKubectl"
                     /\ UNCHANGED exitCode
    /\ trace' = Append(trace, "read")
    /\ UNCHANGED <<commandList, osArgs, args, err, stderr, kubectlCalls,
                   childStatus, call, lookups>>

\* One run of the first version of the root program; its executeKubectl
\* (lines 26-35) is the code of lines 158-167
Root1Next ==
    \/ Root1_Main
    \/ Root1_Confirm
    \/ Root_ExecuteKubectl_Start
    \/ Root_ExecuteKubectl_Wait

Root1Init == InitWith(Root1ArgVectors, "root1:main")

Root1Spec == Root1Init /\ [][Root1Next]_vars

RootNext ==
    \/ Root_Main
    \/ Root_ContextExists
    \/ Root_Confirm
    \/ Root_ExecuteKubectl_Start
    \/ Root_ExecuteKubectl_Wait

RootInit == InitWith(RootArgVectors, "root:main")

RootSpec == RootInit /\ [][RootNext]_vars

-----------------------------------------------------------------------------
(* The context-verifying version of pkg/safe *)

\* ExecuteV2_Validate looking the context up before it checks that both
\* flags are present
ExecuteV2_Validate_LookupBeforeMissingCheck ==
    /\ pc = "validate"
    /\ trace' = Append(trace, "validate")
    /\ LET v == validateRequiredFlagsV2_Scan(args)
       IN  /\ err' = v.err
           /\ pc' = IF v.contextValue \notin {"", NotSpecified}
                    THEN "getKubeconfigContexts"
                    ELSE IF v.err # Nil THEN "return"
                    ELSE "showConfirmation"
    /\ UNCHANGED <<commandList, osArgs, args, stdout, stderr, stdinRead, kubectlCalls,
                   childStatus, exitCode, call, lookups>>

\* Execute of the context-verifying version, lines 374-377 with
\* validateRequiredFlags lines 398-438: the flags are scanned; the run ends
\* with the missing-flag error, goes on to the confirmation when no lookup is
\* made, or calls getKubeconfigContexts
ExecuteV2_Validate ==
    /\ pc = "validate"
    /\ trace' = Append(trace, "validate")
    /\ LET v == validateRequiredFlagsV2_Scan(args)
       IN  /\ err' = v.err
           /\ pc' = IF v.err # Nil THEN "return"
                    ELSE IF v.lookup THEN "getKubeconfigContexts"
                    ELSE "showConfirmation"
    /\ UNCHANGED <<commandList, osArgs, args, stdout, stderr, stdinRead, kubectlCalls,
                   childStatus, exitCode, call, lookups>>

\* validateRequiredFlags lines 439-450 with getKubeconfigContexts (lines
\* 513-538): the listing child has ended; the context value is looked up
ExecuteV2_Lookup ==
    /\ pc = "getKubeconfigContexts"
    /\ \E outcome \in ListOutcomes :
         LET v == validateRequiredFlagsV2_Scan(args)
             listing == getKubeconfigContexts(outcome)
         IN  /\ lookups' = Append(lookups, LookupOf(outcome, v.contextValue))
             /\ err' = validateRequiredFlagsV2_Verify(v.contextValue, listing)
             /\ pc' = IF err' # Nil THEN "return" ELSE "showConfirmation"
    /\ UNCHANGED <<commandList, osArgs, args, stdout, stderr, stdinRead, kubectlCalls,
                   childStatus, exitCode, trace, call>>

Next ==
    \/ Execute_Start
    \/ Execute_Classify
    \/ Execute_Validate
    \/ ShowConfirmation_Print
    \/ ShowConfirmation_Read
    \/ ExecuteKubectl_Start
    \/ ExecuteKubectl_Wait
    \/ Main_Exit

Spec == Init /\ [][Next]_vars

\* One run of the context-verifying version of the package.  Its Execute
\* (lines 360-385), showConfirmation, executeKubectl and showUsage are the
\* code of the first version; validateRequiredFlags is the step that differs.
NextV2 ==
    \/ Execute_Start
    \/ Execute_Classify
    \/ ExecuteV2_Validate
    \/ ExecuteV2_Lookup
    \/ ShowConfirmation_Print
    \/ ShowConfirmation_Read
    \/ ExecuteKubectl_Start
    \/ ExecuteKubectl_Wait
    \/ Main_Exit

InitV2 == InitWith(V2ArgVectors, "Execute")

SpecV2 == InitV2 /\ [][NextV2]_vars

\* The version request.  The test of the version flag and the build's
\* -X ...pkg/safe.Version setting belong to a release of the package whose
\* Execute answers a version request before anything else; the rule for what
\* counts as a request is the test's.

\* pkg/safe.Version as the build sets it when there is no VERSION file
Version == "dev"

VersionText == "kubectl-safe version " \o Version \o "\n"

\* isVersionRequest looking at the first argument only
isVersionRequest_FirstArgumentOnly(a) ==
    Len(a) >= 1 /\ (a[1] = "--version" \/ a[1] = "-v")

\* len(args) == 1 && (args[0] == "--version" || args[0] == "-v")
isVersionRequest(a) ==
    Len(a) = 1 /\ (a[1] = "--version" \/ a[1] = "-v")

\* Execute of that release, before its other steps: a version request prints
\* the version and returns nil; any other vector is handled as before
Execute_Version ==
    /\ pc = "Execute:version"
    /\ IF isVersionRequest(Tail(osArgs))
       THEN /\ args' = Tail(osArgs)
            /\ stdout' = Append(stdout, VersionText)
            /\ err' = Nil
            /\ trace' = Append(trace, "version")
            /\ pc' = "return"
       ELSE /\ pc' = "Execute"
            /\ UNCHANGED <<args, stdout, err, trace>>
    /\ UNCHANGED <<commandList, osArgs, stderr, stdinRead, kubectlCalls, childStatus,
                   exitCode, call, lookups>>

VersionNext == Execute_Version \/ NextV2

VersionInit == InitWith(VersionArgVectors, "Execute:version")

VersionSpec == VersionInit /\ [][VersionNext]_vars

\* Runs of the two programs that check the context against the kubeconfig:
\* the context-verifying version of the package and the root program
VerifyInit == InitV2 \/ RootInit

VerifyNext == NextV2 \/ RootNext

VerifySpec == VerifyInit /\ [][VerifyNext]_vars

\* Runs of the two context-verifying programs on vectors with several context
\* flags
MultiContextInit ==
    \/ InitWith(MultiContextVectors, "Execute")
    \/ InitWith(MultiContextVectors, "root:main")

MultiContextSpec == MultiContextInit /\ [][VerifyNext]_vars

\* Runs of either version of the package under cmd/kubectl-safe main
PkgInit == InitWith(ArgVectors \cup V2ArgVectors, "Execute")

PkgNext == Next \/ NextV2

PkgSpec == PkgInit /\ [][PkgNext]_vars

\* The run is one sequential thread: a step that can be taken is taken.  For
\* the two steps that wait on the outside (the read of standard input and
\* cmd.Run) this says that a line or the end of the stream arrives and that
\* the child ends.
LiveInit == InitWith(LiveArgVectors, "Execute")

LiveSpec == LiveInit /\ [][Next]_vars /\ WF_vars(Next)

-----------------------------------------------------------------------------
(* Single calls of the package's functions *)

\* the flag pairs extractFlagValue is called with (showConfirmation, 204-205)
FlagPairs == { <<"--context", "-c">>, <<"--namespace", "-n">> }

FnInit ==
    /\ osArgs \in { <<ProgramName>> \o v : v \in ArgVectors }
    /\ args = Tail(osArgs)
    /\ pc = "fn"
    /\ err = Nil
    /\ stdout = <<>>
    /\ stderr = <<>>
    /\ stdinRead = <<>>
    /\ kubectlCalls = <<>>
    /\ childStatus = NoChild
    /\ exitCode = Running
    /\ trace = <<>>
    /\ call = NoCall
    /\ lookups = <<>>
    /\ commandList = DangerousCommands

FnFrame ==
    /\ pc = "fn"
    /\ pc' = "fn returned"
    /\ UNCHANGED <<commandList, osArgs, args, err, stderr, kubectlCalls, childStatus,
                   exitCode, trace, lookups>>

Call_isDangerousCommand ==
    /\ FnFrame
    /\ call' = [NoCall EXCEPT !.fn = "isDangerousCommand",
                              !.bool = isDangerousCommand(args)]
    /\ UNCHANGED <<stdout, stdinRead>>

Call_validateRequiredFlags ==
    /\ FnFrame
    /\ call' = [NoCall EXCEPT !.fn = "validateRequiredFlags",
                              !.err = validateRequiredFlags(args)]
    /\ UNCHANGED <<stdout, stdinRead>>

Call_extractFlagValue ==
    /\ FnFrame
    /\ \E f \in FlagPairs :
         call' = [NoCall EXCEPT !.fn = "extractFlagValue",
                                !.long = f[1], !.short = f[2],
                                !.str = extractFlagValue(args, f[1], f[2])]
    /\ UNCHANGED <<stdout, stdinRead>>

\* showConfirmation has one caller, Execute line 79, which reaches it only with
\* a dangerous command that passed validateRequiredFlags
Call_showConfirmation ==
    /\ FnFrame
    /\ isDangerousCommand(args)
    /\ validateRequiredFlags(args) = Nil
    /\ \E content \in StdinPool :
         LET r == showConfirmation(args, content)
         IN  /\ call' = [NoCall EXCEPT !.fn = "showConfirmation",
                                       !.content = content,
                                       !.err = r.err]
             /\ stdout' = stdout \o r.out
             /\ stdinRead' = Append(stdinRead, r.read)

-----------------------------------------------------------------------------
(* getKubeconfigContexts called on its own, as TestGetKubeconfigContexts
   does, over the outputs the listing call can give *)

\* the lines of an output, raw
RECURSIVE RawLines(_)
RawLines(lines) ==
    IF lines = <<>> THEN <<>>
    ELSE <<Head(lines).raw>> \o RawLines(Tail(lines))

Call_getKubeconfigContexts ==
    /\ FnFrame
    /\ \E lines \in ListLineVectors, last \in {"", "\n"}, failure \in ListOutcomes :
         LET output == Join(RawLines(lines), "\n") \o last
             outcome == IF failure.ok
                        THEN [ok |-> TRUE, out |-> output, err |-> Nil]
                        ELSE failure
             result == getKubeconfigContexts(outcome)
         IN  call' = [NoCall EXCEPT !.fn = "getKubeconfigContexts",
                                    !.content = outcome.out,
                                    !.bool = outcome.ok,
                                    !.lines = IF outcome.ok THEN lines ELSE <<>>,
                                    !.list = result.contexts,
                                    !.isNil = result.isNil,
                                    !.err = result.err]
    /\ UNCHANGED <<stdout, stdinRead>>

ListFnInit ==
    /\ InitWith({<<>>}, "fn")

ListFnNext == Call_getKubeconfigContexts

ListFnSpec == ListFnInit /\ [][ListFnNext]_vars

FnNext ==
    \/ Call_isDangerousCommand
    \/ Call_validateRequiredFlags
    \/ Call_extractFlagValue
    \/ Call_showConfirmation

FnSpec == FnInit /\ [][FnNext]_vars

-----------------------------------------------------------------------------
(* Vocabulary of the properties *)

\* the argument vector the process was started with
Argv == Tail(osArgs)

\* the elements of a sequence
Range(seq) == { seq[i] : i \in 1..Len(seq) }

\* the twelve command names the README lists as dangerous
DangerousSet ==
    { "delete", "apply", "create", "replace", "patch", "edit",
      "scale", "rollout", "drain", "cordon", "uncordon", "taint" }

\* the run is over with a failure: Execute has returned an error, main's exit
\* is the one step left, and once taken the exit status is not zero
EndsNonZero ==
    /\ pc \in {"return", "exited"}
    /\ pc = "return" => (err # Nil /\ ENABLED Main_Exit)
    /\ pc = "exited" => exitCode \notin {0, Running}

\* white space of up to two characters
WsChars == {" ", "\t", "\r", "\n", "\f"}
WsStrings == {""} \cup WsChars \cup { a \o b : a \in WsChars, b \in WsChars }

\* "yes" and "y" in every mix of upper and lower case
YesWords ==
    { "yes", "yeS", "yEs", "yES", "Yes", "YeS", "YEs", "YES", "y", "Y" }

\* the lines that are "yes" or "y" once trimmed and lowercased, built up from
\* the word rather than parsed (white space of up to two characters a side)
AffirmativeLines ==
    { lead \o word \o trail :
          lead \in WsStrings, word \in YesWords, trail \in WsStrings }

-----------------------------------------------------------------------------
(* Properties *)

\* C1: when the first argument is a dangerous command and validateRequiredFlags
\* returns an error for the argument vector, kubectl is never started, no
\* confirmation is printed, standard input is never read, and the process
\* ends with a non-zero exit status.
C1_ValidationFailureStopsRun ==
    ( /\ Len(Argv) > 0
      /\ Argv[1] \in DangerousSet
      /\ validateRequiredFlags(Argv) # Nil )
    => /\ kubectlCalls = <<>>
       /\ stdout = <<>>
       /\ stdinRead = <<>>
       /\ pc \notin {"showConfirmation", "ReadString", "executeKubectl", "cmd.Run"}
       /\ pc \notin {"Execute", "classify", "validate"} => EndsNonZero

C1_Witness ==
    /\ pc = "exited"
    /\ Argv = <<"delete", "prod", "--context=prod">>
    /\ err = validateRequiredFlags(Argv)
    /\ exitCode = 1
    /\ kubectlCalls = <<>>

\* C2: when a dangerous command has passed validation and the line read at the
\* prompt is not an affirmative answer, kubectl is never started and the
\* process ends with a non-zero exit status.
C2_DeclinedNeverRuns ==
    ( /\ Len(stdinRead) > 0
      /\ stdinRead[1].err = Nil
      /\ stdinRead[1].line \notin AffirmativeLines )
    => /\ kubectlCalls = <<>>
       /\ err # Nil
       /\ EndsNonZero

C2_Witness ==
    /\ pc = "exited"
    /\ Argv = <<"delete", "--context=prod", "-n">>
    /\ stdinRead = << [line |-> "no\n", err |-> Nil] >>
    /\ kubectlCalls = <<>>
    /\ exitCode = 1

\* C3: for a line read without error, showConfirmation returns nil exactly when
\* the line, trimmed and lowercased, is "yes" or "y" ("YES", " y ", "Yes"
\* proceed); every other line, among them the empty line, "n", "no", "ye" and
\* "yess", gives the cancellation error.
C3_ConfirmationAccepts ==
    ( /\ call.fn = "showConfirmation"
      /\ stdinRead[1].err = Nil )
    => LET line == stdinRead[1].line
       IN  /\ (call.err = Nil) <=> (line \in AffirmativeLines)
           /\ call.err # Nil => call.err = Errorf("operation cancelled by user")
           /\ line \in {"YES\n", " y \n", "Yes\n", "yes\n", "y\n"}
                  => call.err = Nil
           /\ line \in {"\n", "n\n", "no\n", "ye\n", "yess\n"}
                  => call.err = Errorf("operation cancelled by user")

C3_Witness ==
    /\ call.fn = "showConfirmation"
    /\ call.content = " y \n"
    /\ stdinRead = << [line |-> " y \n", err |-> Nil] >>
    /\ call.err = Nil

\* C4: isDangerousCommand(args) is true exactly when args is not empty and
\* args[0] is equal to a member of DangerousCommands; the elements after
\* args[0] do not matter.
C4_ClassifierExact ==
    call.fn = "isDangerousCommand"
    => /\ call.bool <=> (Len(args) > 0 /\ args[1] \in DangerousSet)
       /\ Len(args) = 0 => ~call.bool
       /\ Len(args) > 0 => call.bool = isDangerousCommand(<<args[1]>>)

C4_Witness ==
    /\ call.fn = "isDangerousCommand"
    /\ args = <<"taint", "get", "delete">>
    /\ call.bool

\* values a flag is given in the argument vectors explored
FlagValues == {"", "prod", "dev", "default", "<not specified>"}

\* the four shapes in which a flag can appear as one element of the vector
FlagShapes(longFlag, shortFlag) ==
    {longFlag, shortFlag}
        \cup { f \o "=" \o v : f \in {longFlag, shortFlag}, v \in FlagValues }

ContextGiven(a) == \E i \in 1..Len(a) : a[i] \in FlagShapes("--context", "-c")
NamespaceGiven(a) == \E i \in 1..Len(a) : a[i] \in FlagShapes("--namespace", "-n")

\* the vector a with its elements rearranged by the permutation p of its indices
Permuted(a, p) == [i \in 1..Len(a) |-> a[p[i]]]

\* C5: validateRequiredFlags succeeds exactly when some element is the context
\* flag in one of its four shapes and some element is the namespace flag in one
\* of its four shapes; the result is the same for every ordering of the
\* elements.
C5_ValidatorIffBothFlags ==
    call.fn = "validateRequiredFlags"
    => /\ (call.err = Nil) <=> (ContextGiven(args) /\ NamespaceGiven(args))
       /\ \A p \in Permutations(1..Len(args)) :
              validateRequiredFlags(Permuted(args, p)) = call.err

C5_Witness ==
    /\ call.fn = "validateRequiredFlags"
    /\ args = <<"-n=", "delete", "-c=dev">>
    /\ call.err = Nil

\* C6: the error of validateRequiredFlags for an absent flag names exactly the
\* absent flags: "--context", "--namespace", or "--context and --namespace".
C6_ErrorNamesMissingFlags ==
    ( /\ call.fn = "validateRequiredFlags"
      /\ call.err # Nil )
    => LET named == CASE ~ContextGiven(args) /\ ~NamespaceGiven(args)
                             -> "--context and --namespace"
                      [] ~ContextGiven(args) /\ NamespaceGiven(args)
                             -> "--context"
                      [] ContextGiven(args) /\ ~NamespaceGiven(args)
                             -> "--namespace"
                      [] OTHER -> "no flag"
       IN  call.err.msg =
               "dangerous command requires explicit " \o named
                   \o " flag(s). This ensures you're targeting the correct cluster and namespace"

C6_Witness ==
    /\ call.fn = "validateRequiredFlags"
    /\ args = <<"delete", "prod", "-n">>
    /\ call.err.msg =
           "dangerous command requires explicit --context flag(s). This ensures you're targeting the correct cluster and namespace"

\* a value with no "=" and no white space in it
PlainValue(v) ==
    \A k \in 1..Len(v) : CharAt(v, k) \notin ({"="} \cup WsChars)

\* C7: extractFlagValue gives back a value embedded in the vector: when the flag
\* occurs once, as "flag=value" or as "flag" followed by "value" (value without
\* "=" or white space), the result is that value; when the flag occurs in no
\* shape, the result is "<not specified>".
C7_ExtractRoundTrip ==
    call.fn = "extractFlagValue"
    => LET occ == { i \in 1..Len(args) :
                        args[i] \in FlagShapes(call.long, call.short) }
       IN  /\ occ = {} => call.str = NotSpecified
           /\ \A i \in occ : \A v \in FlagValues \cup ArgPool :
                  ( /\ occ = {i}
                    /\ PlainValue(v)
                    /\ \/ args[i] \in {call.long \o "=" \o v, call.short \o "=" \o v}
                       \/ /\ args[i] \in {call.long, call.short}
                          /\ i < Len(args)
                          /\ args[i + 1] = v )
                  => call.str = v

C7_Witness ==
    /\ call.fn = "extractFlagValue"
    /\ call.long = "--context"
    /\ args = <<"delete", "--context=prod", "--namespace">>
    /\ call.str = "prod"

\* C8: for a non-empty argument vector whose first element is not a dangerous
\* command, kubectl is started exactly once with the whole vector, and
\* validation, the confirmation output and the read of standard input never
\* happen.
C8_PassThroughDirect ==
    ( /\ Len(Argv) > 0
      /\ Argv[1] \notin DangerousSet )
    => /\ Range(trace) \subseteq {"classify", "execute"}
       /\ stdout = <<>>
       /\ stdinRead = <<>>
       /\ pc \in {"Execute", "classify", "executeKubectl"} => kubectlCalls = <<>>
       /\ pc \in {"cmd.Run", "return", "exited"} => kubectlCalls = <<Argv>>

C8_Witness ==
    /\ pc = "exited"
    /\ Argv = <<"get", "delete", "--context">>
    /\ kubectlCalls = <<Argv>>
    /\ trace = <<"classify", "execute">>

\* the line read at the prompt was an affirmative answer
Confirmed ==
    /\ Len(stdinRead) > 0
    /\ stdinRead[1].err = Nil
    /\ stdinRead[1].line \in AffirmativeLines

\* C9: when a dangerous command passes validation and the user confirms,
\* kubectl is started with a vector equal, element for element, to the original
\* argument vector; no step of the run changes the vector.
C9_ConfirmedRunsOriginalVector ==
    /\ [](pc # "Execute" => args = Argv)
    /\ []((Confirmed /\ pc \in {"cmd.Run", "return", "exited"})
              => kubectlCalls = <<Argv>>)
    /\ [][osArgs' = osArgs /\ (pc # "Execute" => args' = args)]_vars

C9_Witness ==
    /\ pc = "exited"
    /\ Argv = <<"delete", "--context=prod", "-n=">>
    /\ stdinRead = << [line |-> "YES\n", err |-> Nil] >>
    /\ kubectlCalls = << <<"delete", "--context=prod", "-n=">> >>

\* C10: whenever kubectl was started and exited with status k, the process
\* exits with the same status k.
C10_ExitStatusPropagated ==
    (pc = "exited" /\ childStatus.state = "exited")
    => exitCode = childStatus.status

\* C12: with no argument, Execute prints the usage text, which lists every
\* member of DangerousCommands, and returns nil; kubectl is never started and
\* standard input is never read.
ListedIn(text, name) ==
    \/ ContainsStr(text, "\n  " \o name \o ", ")
    \/ ContainsStr(text, ", " \o name \o ", ")
    \/ ContainsStr(text, ", " \o name \o "\n")

C12_NoArgsShowsUsage ==
    Len(Argv) = 0
    => /\ kubectlCalls = <<>>
       /\ stdinRead = <<>>
       /\ pc \in {"Execute", "return", "exited"}
       /\ pc # "Execute"
              => /\ Len(stdout) = 1
                 /\ \A name \in DangerousSet : ListedIn(stdout[1], name)
                 /\ err = Nil
       /\ pc = "return" => ENABLED Main_Exit
       /\ pc = "exited" => exitCode = 0

C12_Witness ==
    /\ pc = "exited"
    /\ Argv = <<>>
    /\ exitCode = 0
    /\ Len(stdout) = 1
    /\ ListedIn(stdout[1], "cordon")

\* C13: when the read of standard input fails (the stream ends before a
\* newline, also after "yes" or "y"), showConfirmation returns the input
\* error, "Proceeding" is not printed, and kubectl is never started.
C13_ReadFailureStopsRun ==
    ( /\ Len(stdinRead) > 0
      /\ stdinRead[1].err # Nil )
    => /\ err = Errorf("failed to read user input: " \o stdinRead[1].err.msg)
       /\ ProceedingText \notin Range(stdout)
       /\ kubectlCalls = <<>>
       /\ EndsNonZero

C13_Witness ==
    /\ pc = "exited"
    /\ stdinRead = << [line |-> "yes", err |-> EOF] >>
    /\ kubectlCalls = <<>>
    /\ exitCode = 1

\* C19: in every run of Execute the stages are entered in the order classify,
\* validate, confirm (prompt, then the read), execute, each at most once: one
\* validation, one line read, one start of kubectl, and nothing is entered
\* again after a failed validation or a declined confirmation.
Stages == <<"classify", "validate", "confirm", "read", "execute">>

StageIndex(stage) ==
    IF \E k \in 1..Len(Stages) : Stages[k] = stage
    THEN CHOOSE k \in 1..Len(Stages) : Stages[k] = stage
    ELSE 0

NothingAfterReturn ==
    pc \in {"return", "exited"}
    => ( /\ trace' = trace
         /\ stdinRead' = stdinRead
         /\ kubectlCalls' = kubectlCalls
         /\ stdout' = stdout )

C19_StagesInOrderOnce ==
    /\ [] ( /\ \/ trace \in {<<>>, <<"usage">>}
               \/ /\ \A i \in 1..Len(trace) : StageIndex(trace[i]) # 0
                  /\ \A i, j \in 1..Len(trace) :
                        i < j => StageIndex(trace[i]) < StageIndex(trace[j])
            /\ Len(stdinRead) <= 1
            /\ Len(kubectlCalls) <= 1
            /\ Len(stdinRead) = 1 => "confirm" \in Range(trace)
            /\ "confirm" \in Range(trace) => "validate" \in Range(trace) )
    /\ [][NothingAfterReturn]_vars

C19_Witness ==
    /\ pc = "exited"
    /\ trace = Stages
    /\ Len(stdinRead) = 1
    /\ Len(kubectlCalls) = 1

C19_WitnessDeclined ==
    /\ pc = "exited"
    /\ trace = <<"classify", "validate", "confirm", "read">>
    /\ err = Errorf("operation cancelled by user")

\* C20: every run of Execute ends (usage shown, validation failed, cancelled,
\* input failed, or kubectl finished), given that the read of standard input
\* returns and that a started child exits; before the end some step can
\* always be taken, and the read is the only step whose result is the user's.
C20_RunTerminates ==
    /\ <>(pc = "exited")
    /\ [](pc # "exited" => ENABLED Next)
    /\ [][stdinRead' # stdinRead => pc = "ReadString"]_vars

C20_Witness ==
    /\ pc = "exited"
    /\ Len(stdinRead) = 1
    /\ childStatus.state = "exited"

\* C11: the process exits with status 0 exactly when no argument was given
\* or kubectl was started and exited 0; missing flags, a failed lookup or
\* validation, a cancellation, a failed read, a kubectl that cannot be started
\* and a kubectl that exits with another status all give another status.
ToolSucceeded ==
    /\ Len(kubectlCalls) = 1
    /\ childStatus = ChildExited(0)

FailedBeforeOrInTool ==
    \/ /\ isDangerousCommand(Argv)
       /\ ~(ContextGiven(Argv) /\ NamespaceGiven(Argv))
    \/ \E i \in 1..Len(lookups) : ~lookups[i].ok
    \/ /\ lookups # <<>>
       /\ kubectlCalls = <<>>
       /\ stdinRead = <<>>
    \/ \E i \in 1..Len(stdinRead) :
          stdinRead[i].err # Nil \/ stdinRead[i].line \notin AffirmativeLines
    \/ childStatus = SpawnFailed
    \/ childStatus.state = "exited" /\ childStatus.status # 0

C11_ExitZeroIffSuccess ==
    pc = "exited"
    => /\ exitCode = 0 <=> (Len(Argv) = 0 \/ ToolSucceeded)
       /\ FailedBeforeOrInTool => exitCode \notin {0, Running}

C11_Witness ==
    /\ pc = "exited"
    /\ exitCode = 0
    /\ Len(lookups) = 1
    /\ ToolSucceeded

C11_WitnessLookupFailed ==
    /\ pc = "exited"
    /\ exitCode = 1
    /\ Len(lookups) = 1
    /\ ~lookups[1].ok

\* C15: when the context-listing call is made and fails, validation ends with
\* a "failed to get available contexts" error; when it succeeds and the list
\* does not hold the context value, with a "context '...' not found in
\* kubeconfig" error; neither is a success or the missing-flag error, and
\* neither lets the run go on.
ListsContext(out, value) ==
    \E k \in 1..Len(Split(out, "\n")) : TrimSpace(Split(out, "\n")[k]) = value

ContextValueOf(a) == extractFlagValue(a, "--context", "-c")

IsMissingFlagError(e) == HasPrefix(e.msg, "dangerous command requires explicit ")

C15_LookupErrorsAreDistinct ==
    Len(lookups) > 0
    => /\ ContextGiven(Argv) /\ NamespaceGiven(Argv)
       /\ ~lookups[1].ok
            => /\ HasPrefix(err.msg, "failed to get available contexts")
               /\ ~ContainsStr(err.msg, "not found in kubeconfig")
       /\ (lookups[1].ok /\ ~ListsContext(lookups[1].out, ContextValueOf(Argv)))
            => /\ HasPrefix(err.msg, "context '" \o ContextValueOf(Argv)
                                        \o "' not found in kubeconfig")
               /\ ~ContainsStr(err.msg, "failed to get available contexts")
       /\ (~lookups[1].ok \/ ~ListsContext(lookups[1].out, ContextValueOf(Argv)))
            => /\ err # Nil
               /\ ~IsMissingFlagError(err)
               /\ pc \in {"return", "exited"}
               /\ stdout = <<>>
               /\ kubectlCalls = <<>>

C15_Witness ==
    /\ pc = "return"
    /\ Len(lookups) = 1
    /\ ~lookups[1].ok
    /\ HasPrefix(err.msg, "failed to get available contexts")

C15_WitnessNotFound ==
    /\ pc = "return"
    /\ Len(lookups) = 1
    /\ lookups[1].out = "production\n"
    /\ ContextValueOf(Argv) = "prod"
    /\ ContainsStr(err.msg, "not found in kubeconfig")

\* C16: validation fails closed: whenever validateRequiredFlags of the
\* context-verifying version succeeds, the context-listing call was made, it
\* succeeded, and the context value given in args is in the list; also for
\* "--context=", for a bare context flag in last place and for the value
\* "<not specified>".
ValidationSucceeded ==
    /\ "validate" \in Range(trace)
    /\ pc \notin {"validate", "getKubeconfigContexts"}
    /\ "confirm" \in Range(trace) \/ pc = "showConfirmation"

C16_ValidationFailsClosed ==
    ValidationSucceeded
    => /\ Len(lookups) = 1
       /\ lookups[1].ok
       /\ ListsContext(lookups[1].out, ContextValueOf(Argv))

\* C17: in the two context-verifying programs the context-listing call, if
\* made, is over before anything of the confirmation is written and before
\* standard input is read; it is made at most once, and never for a run
\* without arguments, for a pass-through command or when a required flag is
\* missing.
IsRootRun == HasPrefix(pc, "root:")

LookupPending == pc \in {"getKubeconfigContexts", "root:contextExists"}

RootContextGiven(a) ==
    \E i \in 1..Len(a) :
        HasPrefix(a[i], "--context=") \/ (a[i] = "--context" /\ i < Len(a))

RootNamespaceGiven(a) ==
    \E i \in 1..Len(a) :
        \/ HasPrefix(a[i], "--namespace=")
        \/ (a[i] \in {"--namespace", "-n"} /\ i < Len(a))

GuardedWithFlags ==
    /\ Len(Argv) > 0
    /\ IF IsRootRun
       THEN /\ Argv[1] \in {"delete", "apply", "edit", "patch", "rollout",
                            "scale", "create", "replace"}
            /\ RootContextGiven(Tail(Argv))
            /\ RootNamespaceGiven(Tail(Argv))
       ELSE /\ Argv[1] \in DangerousSet
            /\ ContextGiven(Argv)
            /\ NamespaceGiven(Argv)

LookupStep ==
    lookups' # lookups
    => ( /\ LookupPending
         /\ lookups = <<>>
         /\ stdout = <<>>
         /\ stdinRead = <<>>
         /\ kubectlCalls = <<>> )

NoLookupAfterConfirmation ==
    (stdout # <<>> \/ stdinRead # <<>>) => lookups' = lookups

C17_LookupOnceBeforeConfirmation ==
    /\ [] ( /\ Len(lookups) <= 1
            /\ LookupPending
                 => /\ lookups = <<>>
                    /\ stdout = <<>>
                    /\ stdinRead = <<>>
            /\ (LookupPending \/ lookups # <<>>) => GuardedWithFlags )
    /\ [][LookupStep /\ NoLookupAfterConfirmation]_vars

C17_Witness ==
    /\ pc = "exited"
    /\ Len(lookups) = 1
    /\ Len(stdinRead) = 1
    /\ Len(kubectlCalls) = 1

C17_WitnessRoot ==
    /\ pc = "root:exited"
    /\ Len(lookups) = 1
    /\ Len(stdinRead) = 1
    /\ Len(kubectlCalls) = 1

\* C18: in the root program, for a context whose lowercased name contains
\* "prod" the command goes on exactly when the one line typed, trimmed, is
\* the context name itself (case matters; "y" and "yes" do not confirm); a
\* mismatch or a failed read ends the run with no second prompt and without
\* kubectl; for any other context the yes/no prompt is used.
RootContext ==
    IF Len(osArgs) < 2 THEN ""
    ELSE parseContextAndNamespace(SubSeq(osArgs, 3, Len(osArgs))).context

NamesProduction(context) ==
    \E i \in 1..Len(context) :
        /\ i + 3 <= Len(context)
        /\ SubSeq(context, i, i + 3) \in
               { a \o b \o c \o d : a \in {"p", "P"}, b \in {"r", "R"},
                                  c \in {"o", "O"}, d \in {"d", "D"} }

TypedLines(context) ==
    { lead \o context \o trail : lead \in WsStrings, trail \in WsStrings }

RootProceeded ==
    \/ pc \in {"root:executeKubectl", "root:cmd.Run"}
    \/ kubectlCalls # <<>>

C18_ProductionNeedsExactName ==
    (IsRootRun /\ Len(stdinRead) > 0)
    => LET rd == stdinRead[1]
       IN  /\ Len(stdinRead) = 1
           /\ ~RootProceeded
                => /\ pc = "root:exited"
                   /\ exitCode = 1
                   /\ kubectlCalls = <<>>
           /\ NamesProduction(RootContext)
                => /\ TypeNamePrompt(RootContext) \in Range(stdout)
                   /\ YesNoPrompt \notin Range(stdout)
                   /\ RootProceeded
                        <=> (rd.err = Nil /\ rd.line \in TypedLines(RootContext))
                   /\ rd.line \in AffirmativeLines => ~RootProceeded
           /\ ~NamesProduction(RootContext)
                => /\ YesNoPrompt \in Range(stdout)
                   /\ TypeNamePrompt(RootContext) \notin Range(stdout)
                   /\ RootProceeded
                        <=> ( /\ rd.err = Nil
                              /\ rd.line \in { lead \o y \o trail :
                                                  lead \in WsStrings,
                                                  y \in {"y", "Y"},
                                                  trail \in WsStrings } )

C18_Witness ==
    /\ pc = "root:exited"
    /\ RootContext = "Prod"
    /\ stdinRead = << [line |-> "\tProd\r\n", err |-> Nil] >>
    /\ Len(kubectlCalls) = 1

C18_WitnessWrongCase ==
    /\ pc = "root:exited"
    /\ RootContext = "Prod"
    /\ stdinRead = << [line |-> "prod\n", err |-> Nil] >>
    /\ kubectlCalls = <<>>
    /\ exitCode = 1

C18_WitnessYesNo ==
    /\ pc = "root:exited"
    /\ RootContext = "dev"
    /\ stdinRead = << [line |-> "y\n", err |-> Nil] >>
    /\ Len(kubectlCalls) = 1

\* C14: when the argument vector is the single element "--version" or "-v",
\* the program prints a version string and ends without starting kubectl;
\* with any further argument (as in "--version extra") the vector is not a
\* version request and is handled like any other.
VersionVectors == { <<"--version">>, <<"-v">> }

C14_WitnessExtraArgument ==
    /\ pc = "exited"
    /\ Argv = <<"--version", "extra">>
    /\ kubectlCalls = << <<"--version", "extra">> >>

\* C21: the dangerous commands of pkg/safe are exactly the twelve the README
\* lists, each once, and no step of a run (usage, classification, validation,
\* confirmation, execution, exit) changes the package's list.
ReadmeDangerousCommands ==
    { "delete", "apply", "create", "replace", "patch", "edit", "scale",
      "rollout", "drain", "cordon", "uncordon", "taint" }

C21_DangerousCommandsFixed ==
    /\ [] ( /\ Range(commandList) = ReadmeDangerousCommands
            /\ Len(commandList) = Cardinality(ReadmeDangerousCommands)
            /\ commandList = DangerousCommands
            /\ \A name \in ReadmeDangerousCommands \cup Range(Argv) :
                   isDangerousCommand(<<name>>) <=> name \in ReadmeDangerousCommands )
    /\ [][commandList' = commandList]_vars

C21_Witness ==
    /\ pc = "exited"
    /\ trace = Stages
    /\ Range(commandList) = ReadmeDangerousCommands

C21_WitnessUsage ==
    /\ pc = "exited"
    /\ trace = <<"usage">>
    /\ Range(commandList) = ReadmeDangerousCommands

\* C22: extractFlagValue returns the value given by the leftmost element that
\* matches: what follows the first "=" of an element that starts with
\* longFlag= or shortFlag= (possibly nothing), or the next element after an
\* element that is longFlag or shortFlag and is not the last.  A bare flag in
\* last place does not match, and what comes after the leftmost match does
\* not matter.
MatchesFlag(a, i, longFlag, shortFlag) ==
    \/ \E v \in 0..Len(a[i]) :
          \E f \in {longFlag, shortFlag} :
              /\ Len(a[i]) = Len(f) + 1 + v
              /\ SubSeq(a[i], 1, Len(f) + 1) = f \o "="
    \/ /\ a[i] \in {longFlag, shortFlag}
       /\ i < Len(a)

ValueAt(a, i) ==
    LET eq == { k \in 1..Len(a[i]) : CharAt(a[i], k) = "=" }
    IN  IF eq = {} THEN a[i + 1]
        ELSE LET first == CHOOSE k \in eq : \A j \in eq : k <= j
             IN  SubSeq(a[i], first + 1, Len(a[i]))

C22_LeftmostMatchWins ==
    call.fn = "extractFlagValue"
    => LET matches == { i \in 1..Len(args) :
                            MatchesFlag(args, i, call.long, call.short) }
       IN  /\ matches = {} => call.str = NotSpecified
           /\ \A i \in matches :
                  (\A j \in matches : i <= j) => call.str = ValueAt(args, i)
           /\ \A i \in matches : \A n \in 1..Len(args) :
                  ( /\ \A j \in matches : i <= j
                    /\ n >= (IF args[i] \in {call.long, call.short} THEN i + 1 ELSE i) )
                  => call.str = extractFlagValue(SubSeq(args, 1, n),
                                                 call.long, call.short)

C22_Witness ==
    /\ call.fn = "extractFlagValue"
    /\ call.long = "--context"
    /\ args = <<"-c=dev", "--context=prod", "--context">>
    /\ call.str = "dev"

C22_WitnessEmptyValue ==
    /\ call.fn = "extractFlagValue"
    /\ call.long = "--namespace"
    /\ args = <<"-n=", "--namespace=default", "-n">>
    /\ call.str = ""

\* C23: the yes/no confirmation of the root program takes a line as a
\* confirmation exactly when the line, trimmed and lowercased, is "yes" or
\* "y".
C23_RootConfirmationAccepts ==
    ( /\ Len(stdinRead) > 0
      /\ stdinRead[1].err = Nil )
    => (RootProceeded <=> stdinRead[1].line \in AffirmativeLines)

\* C24: in the first version of the root program a failed read of standard
\* input at the prompt is a cancellation and kubectl is never started, also
\* when the stream ends after "y" with no newline.
C24_RootReadFailureCancels ==
    ( /\ Len(stdinRead) > 0
      /\ stdinRead[1].err # Nil )
    => /\ ~RootProceeded
       /\ kubectlCalls = <<>>
       /\ pc = "root:exited" /\ exitCode = 1

\* C25: in the root program a dangerous command that carries the context
\* flag as "--context v", "-c v", "--context=v" or "-c=v" and the namespace
\* flag as "--namespace v", "-n v", "--namespace=v" or "-n=v" passes the
\* check of the mandatory flags.
CarriesFlag(a, longFlag, shortFlag) ==
    \E i \in 1..Len(a) :
        \/ a[i] \in {longFlag, shortFlag} /\ i < Len(a)
        \/ HasPrefix(a[i], longFlag \o "=")
        \/ HasPrefix(a[i], shortFlag \o "=")

C25_RootAcceptsAllFlagShapes ==
    ( /\ pc # "root1:main"
      /\ Len(Argv) > 0
      /\ Argv[1] \in dangerousCommands
      /\ CarriesFlag(Tail(Argv), "--context", "-c")
      /\ CarriesFlag(Tail(Argv), "--namespace", "-n") )
    => /\ "confirm" \in Range(trace)
       /\ ~(pc = "root:exited" /\ stdinRead = <<>>)

\* C26: in the context-verifying root program a failure of the
\* context-listing call is reported as something other than "the specified
\* context does not exist"; kubectl is not started in either case.
SaysContextDoesNotExist ==
    \E k \in 1..Len(stdout) :
        ContainsStr(stdout[k], "does not exist in your kubeconfig")

C26_RootLookupFailureDistinct ==
    (Len(lookups) > 0 /\ ~lookups[1].ok)
    => /\ kubectlCalls = <<>>
       /\ ~SaysContextDoesNotExist

\* C30: the root program and pkg/safe classify every leading command alike:
\* the root program takes the guarded path (mandatory flags, confirmation)
\* for a command exactly when isDangerousCommand is true for it; so for
\* drain, cordon, uncordon and taint.
RootGuarded == "validate" \in Range(trace)

C30_RootClassifiesLikePackage ==
    (pc # "root:main" /\ Len(Argv) > 0)
    => (RootGuarded <=> isDangerousCommand(<<Argv[1]>>))

\* C27: whenever validateRequiredFlags succeeds, the banner of the
\* confirmation shows a context and a namespace that were given in args;
\* neither line shows "<not specified>" (as for a bare "--context" or "-n" in
\* last place).
BannerShown == "confirm" \in Range(trace)

C27_BannerShowsGivenValues ==
    (~IsRootRun /\ BannerShown)
    => /\ ("  Context:   " \o NotSpecified \o "\n") \notin Range(stdout)
       /\ ("  Namespace: " \o NotSpecified \o "\n\n") \notin Range(stdout)

\* C28: in the context-verifying programs the context value looked up in the
\* list of known contexts is the value shown in the confirmation summary,
\* also when args holds several context flags with different values; in the
\* root program it is also the value tested for "prod" and the value to type.
SummaryShowsContext(context) ==
    IF IsRootRun
    THEN \E k \in 1..(Len(stdout) - 1) :
             stdout[k] = "on context " /\ stdout[k + 1] = context
    ELSE ("  Context:   " \o context \o "\n") \in Range(stdout)

C28_CheckedValueIsShownValue ==
    (Len(lookups) > 0 /\ BannerShown)
    => LET checked == lookups[1].checked
       IN  /\ SummaryShowsContext(checked)
           /\ \A other \in {"prod", "dev", "--context", "--namespace=default"} \ {checked} :
                  ~SummaryShowsContext(other)
           /\ IsRootRun
                => /\ NamesProduction(checked)
                        <=> TypeNamePrompt(checked) \in Range(stdout)
                   /\ ~NamesProduction(checked) <=> YesNoPrompt \in Range(stdout)
                   /\ (NamesProduction(checked) /\ RootProceeded)
                        => stdinRead[1].line \in TypedLines(checked)

C28_Witness ==
    /\ pc = "exited"
    /\ Argv = <<"delete", "--context=prod", "-c=dev", "--namespace=default">>
    /\ lookups[1].checked = "prod"
    /\ Len(kubectlCalls) = 1

C28_WitnessRoot ==
    /\ pc = "root:exited"
    /\ Argv = <<"delete", "--context=prod", "--context=dev", "--namespace=default">>
    /\ lookups[1].checked = "dev"
    /\ Len(kubectlCalls) = 1

\* C29: when the listing call succeeds, getKubeconfigContexts returns a list
\* that is not nil (empty for a blank output) and holds exactly the non-blank
\* lines of the output, in order, each trimmed and none empty; when the call
\* fails it returns an error and no list.
RECURSIVE NamesOf(_)
NamesOf(lines) ==
    IF lines = <<>> THEN <<>>
    ELSE (IF Head(lines).name # "" THEN <<Head(lines).name>> ELSE <<>>)
             \o NamesOf(Tail(lines))

C29_ListIsTrimmedNonBlankLines ==
    call.fn = "getKubeconfigContexts"
    => IF call.bool
       THEN /\ call.err = Nil
            /\ ~call.isNil
            /\ call.list = NamesOf(call.lines)
            /\ \A k \in 1..Len(call.list) :
                   /\ call.list[k] # ""
                   /\ CharAt(call.list[k], 1) \notin WsChars
                   /\ CharAt(call.list[k], Len(call.list[k])) \notin WsChars
            /\ (\A k \in 1..Len(call.lines) : call.lines[k].name = "")
                   => call.list = <<>>
       ELSE /\ call.err # Nil
            /\ HasPrefix(call.err.msg, "failed to execute kubectl config get-contexts: ")
            /\ call.isNil
            /\ call.list = <<>>

C29_Witness ==
    /\ call.fn = "getKubeconfigContexts"
    /\ call.content = "  dev \n\nkind-local\r\n"
    /\ call.list = <<"dev", "kind-local">>
    /\ ~call.isNil

C29_WitnessBlank ==
    /\ call.fn = "getKubeconfigContexts"
    /\ call.content = " \t\n\n"
    /\ call.err = Nil
    /\ call.list = <<>>
    /\ ~call.isNil

C29_WitnessFailure ==
    /\ call.fn = "getKubeconfigContexts"
    /\ ~call.bool
    /\ call.isNil

=============================================================================
